---- MODULE Spec2Model ----
(***************************************************************************)
(* Model of the API base-URL discovery and self-healing client of the QR   *)
(* verifier app: config/database.js (getEnvVar, resolveApiBaseUrl,         *)
(* findWorkingApiUrl) and components/QRScannerScreen.js (the handlers that *)
(* hold and rebind the axios client).                                      *)
(*                                                                         *)
(* JavaScript strings are sequences of one-character strings, so that      *)
(* split, trim and template concatenation are computed, not assumed.       *)
(* JavaScript values are tagged records: the tag is the typeof class.      *)
(***************************************************************************)
EXTENDS Integers, Sequences, FiniteSets, TLC

VARIABLES
  dev,          \* __DEV__
  expoConfig,   \* Constants.expoConfig: Null or an object {hostUri, extra}
  manifest,     \* Constants.manifest: Null or an object {extra}
  processEnv,   \* process.env: public name -> value
  isDevice,     \* Constants.isDevice
  platformOS,   \* Platform.OS
  resolved,     \* harness: the value the last resolveApiBaseUrl() call returned
  nResolve,     \* harness: how many resolveApiBaseUrl() calls were made
  run,          \* harness: one findWorkingApiUrl() call, see IdleRun
  ui,           \* QRScannerScreen: the component state as last set
  shown,        \* QRScannerScreen: the state of the last render (what the
                \* handlers of that render close over)
  tasks,        \* the async handler invocations, in order of their start
  alerts,       \* the Alert dialogs shown and not yet answered
  authToken,    \* SecureStore 'authToken'
  mounted,      \* the mount effect has run
  lastReturn,   \* history: what the findWorkingBackend() call of the screen
                \* that returned last returned
  midBind,      \* the render shown is one made between the two setState
                \* calls of a rebind
  looked,       \* harness: the last getEnvVar(key, default) call and its value
  app           \* App.js: SecureStore 'userData', the state of QRVerifierApp,
                \* its checkAuthStatus() call and its auth-state listener

envVars == <<dev, expoConfig, manifest, processEnv, isDevice, platformOS>>
harnessVars == <<resolved, nResolve, run, looked>>
histVars == <<lastReturn, midBind>>
screenVars == <<ui, shown, tasks, alerts, authToken, mounted, lastReturn,
                midBind>>
vars == <<dev, expoConfig, manifest, processEnv, isDevice, platformOS,
          resolved, nResolve, run, looked,
          ui, shown, tasks, alerts, authToken, mounted, lastReturn, midBind,
          app>>

----------------------------------------------------------------------------
(* JavaScript values *)

Undef == [t |-> "undefined"]
Null == [t |-> "null"]
NaN == [t |-> "NaN"]                       \* typeof NaN is 'number'
Str(s) == [t |-> "string", s |-> s]
Num(n) == [t |-> "number", n |-> n]
Obj(f) == [t |-> "object", o |-> f]
Bool(b) == [t |-> "boolean", b |-> b]
\* harness: no value yet (the function has not returned)
NotCalled == [t |-> "not called"]

\* ToBoolean
Truthy(v) ==
  CASE v.t = "undefined" -> FALSE
    [] v.t = "null" -> FALSE
    [] v.t = "NaN" -> FALSE
    [] v.t = "string" -> v.s # <<>>
    [] v.t = "number" -> v.n # 0
    [] v.t = "object" -> TRUE
    [] v.t = "boolean" -> v.b

\* a || b
Or(a, b) == IF Truthy(a) THEN a ELSE b

\* o?.f : undefined when o is null or undefined or has no such property
Get(o, f) ==
  IF o.t = "object" /\ f \in DOMAIN o.o THEN o.o[f] ELSE Undef

----------------------------------------------------------------------------
(* Strings *)

RECURSIVE SplitFrom(_, _, _, _)
SplitFrom(s, c, i, cur) ==
  IF i > Len(s) THEN <<cur>>
  ELSE IF s[i] = c THEN <<cur>> \o SplitFrom(s, c, i + 1, <<>>)
  ELSE SplitFrom(s, c, i + 1, Append(cur, s[i]))

\* String.prototype.split(c) for a one-character separator
split(s, c) == SplitFrom(s, c, 1, <<>>)

RECURSIVE TrimStart(_)
TrimStart(s) == IF s # <<>> /\ Head(s) = " " THEN TrimStart(Tail(s)) ELSE s

RECURSIVE TrimEnd(_)
TrimEnd(s) ==
  IF s # <<>> /\ s[Len(s)] = " " THEN TrimEnd(SubSeq(s, 1, Len(s) - 1)) ELSE s

\* String.prototype.trim
trim(s) == TrimEnd(TrimStart(s))

\* Array.prototype.indexOf, 1-based; 0 when absent
indexOf(arr, x) ==
  IF \E i \in 1..Len(arr) : arr[i] = x
  THEN CHOOSE i \in 1..Len(arr) : arr[i] = x /\ \A j \in 1..(i - 1) : arr[j] # x
  ELSE 0

RECURSIVE FilterFirst(_, _)
\* arr.filter((url, index, arr) => arr.indexOf(url) === index), from index i
FilterFirst(arr, i) ==
  IF i > Len(arr) THEN <<>>
  ELSE (IF indexOf(arr, arr[i]) = i THEN <<arr[i]>> ELSE <<>>)
       \o FilterFirst(arr, i + 1)

HTTP == <<"h", "t", "t", "p", ":", "/", "/">>
PORT5000 == <<":", "5", "0", "0", "0">>
UrlA == HTTP \o <<"a">>
UrlB == HTTP \o <<"b">>
UrlE == HTTP \o <<"e">>
UrlI == HTTP \o <<"i">>
ANDROID_DEFAULT ==
  HTTP \o <<"1", "0", ".", "0", ".", "2", ".", "2">> \o PORT5000
IOS_DEFAULT ==
  HTTP \o <<"l", "o", "c", "a", "l", "h", "o", "s", "t">> \o PORT5000
FALLBACK_DEFAULT == ANDROID_DEFAULT \o <<",">> \o IOS_DEFAULT

----------------------------------------------------------------------------
(* config/database.js *)

keyMapping ==
  [API_BASE_URL |-> "apiBaseUrl",
   API_TIMEOUT |-> "apiTimeout",
   HEALTH_ENDPOINT |-> "healthEndpoint",
   ANDROID_EMULATOR_API_URL |-> "androidEmulatorApiUrl",
   IOS_SIMULATOR_API_URL |-> "iosSimulatorApiUrl",
   DEVICE_API_URL |-> "deviceApiUrl",
   FALLBACK_API_URLS |-> "fallbackApiUrls",
   DEBUG_MODE |-> "debugMode",
   ENABLE_NETWORK_DEBUGGING |-> "enableNetworkDebugging",
   ENABLE_API_LOGGING |-> "enableApiLogging"]

getEnvVar(key, defaultValue) ==
  LET extraConfig ==
        Or(Or(Get(expoConfig, "extra"), Get(manifest, "extra")),
           Obj(<<>>))
      mappedKey == IF key \in DOMAIN keyMapping THEN keyMapping[key] ELSE key
      envValue == Or(Get(extraConfig, mappedKey), Get(processEnv, key))
  IN  Or(envValue, defaultValue)

TRUE_STR == <<"t", "r", "u", "e">>

\* the boolean flags of ENV_CONFIG
ENV_CONFIG ==
  [DEBUG_MODE |-> getEnvVar("DEBUG_MODE", Str(TRUE_STR)) = Str(TRUE_STR),
   ENABLE_NETWORK_DEBUGGING |->
     getEnvVar("ENABLE_NETWORK_DEBUGGING", Str(TRUE_STR)) = Str(TRUE_STR),
   ENABLE_API_LOGGING |->
     getEnvVar("ENABLE_API_LOGGING", Str(TRUE_STR)) = Str(TRUE_STR)]

IsDigit(c) == c \in {"0", "1", "2", "3", "4", "5", "6", "7", "8", "9"}

DigitVal(c) ==
  CASE c = "0" -> 0 [] c = "1" -> 1 [] c = "2" -> 2 [] c = "3" -> 3
    [] c = "4" -> 4 [] c = "5" -> 5 [] c = "6" -> 6 [] c = "7" -> 7
    [] c = "8" -> 8 [] c = "9" -> 9

RECURSIVE LeadingDigits(_, _)
\* the value of the decimal digits s starts with, after acc
LeadingDigits(s, acc) ==
  IF s # <<>> /\ IsDigit(Head(s))
  THEN LeadingDigits(Tail(s), 10 * acc + DigitVal(Head(s)))
  ELSE acc

\* parseInt(v, 10): leading white space skipped, an optional sign, then the
\* digits up to the first character that is none; NaN when there is no digit
parseInt(v) ==
  CASE v.t = "number" -> v
    [] v.t = "string" ->
         LET body == TrimStart(v.s)
             neg == body # <<>> /\ Head(body) = "-"
             digits == IF body # <<>> /\ Head(body) \in {"-", "+"}
                       THEN Tail(body) ELSE body
         IN  IF digits = <<>> \/ ~IsDigit(Head(digits)) THEN NaN
             ELSE Num((IF neg THEN -1 ELSE 1) * LeadingDigits(digits, 0))
    [] OTHER -> NaN

\* API_CONFIG.TIMEOUT
API_TIMEOUT ==
  parseInt(getEnvVar("API_TIMEOUT", Str(<<"1", "0", "0", "0", "0">>)))

PLATFORM_API_CONFIG ==
  [ANDROID_EMULATOR |->
     getEnvVar("ANDROID_EMULATOR_API_URL", Str(ANDROID_DEFAULT)),
   IOS_SIMULATOR |-> getEnvVar("IOS_SIMULATOR_API_URL", Str(IOS_DEFAULT)),
   DEVICE |-> getEnvVar("DEVICE_API_URL", Str(<<>>))]

\* resolveApiBaseUrl with the hostUri used whole (port kept)
resolveApiBaseUrl_keepPort ==
  IF dev /\ Truthy(Get(expoConfig, "hostUri"))
  THEN Str(HTTP \o Get(expoConfig, "hostUri").s \o PORT5000)
  ELSE LET configuredBaseUrl == getEnvVar("API_BASE_URL", Str(<<>>))
       IN  IF Truthy(configuredBaseUrl) THEN configuredBaseUrl
           ELSE IF isDevice THEN Str(<<>>)
           ELSE IF platformOS = "android"
                THEN PLATFORM_API_CONFIG.ANDROID_EMULATOR
           ELSE PLATFORM_API_CONFIG.IOS_SIMULATOR

\* resolveApiBaseUrl with the device branch answering the configured device URL
resolveApiBaseUrl_deviceUrl ==
  IF dev /\ Truthy(Get(expoConfig, "hostUri"))
  THEN Str(HTTP \o split(Get(expoConfig, "hostUri").s, ":")[1] \o PORT5000)
  ELSE LET configuredBaseUrl == getEnvVar("API_BASE_URL", Str(<<>>))
       IN  IF Truthy(configuredBaseUrl) THEN configuredBaseUrl
           ELSE IF isDevice THEN PLATFORM_API_CONFIG.DEVICE
           ELSE IF platformOS = "android"
                THEN PLATFORM_API_CONFIG.ANDROID_EMULATOR
           ELSE PLATFORM_API_CONFIG.IOS_SIMULATOR

resolveApiBaseUrl ==
  IF dev /\ Truthy(Get(expoConfig, "hostUri"))
  THEN Str(HTTP \o split(Get(expoConfig, "hostUri").s, ":")[1] \o PORT5000)
  ELSE LET configuredBaseUrl == getEnvVar("API_BASE_URL", Str(<<>>))
       IN  IF Truthy(configuredBaseUrl) THEN configuredBaseUrl
           ELSE IF isDevice THEN Str(<<>>)
           ELSE IF platformOS = "android"
                THEN PLATFORM_API_CONFIG.ANDROID_EMULATOR
           ELSE IF platformOS = "ios" THEN PLATFORM_API_CONFIG.IOS_SIMULATOR
           ELSE PLATFORM_API_CONFIG.IOS_SIMULATOR

\* A request to url can reach a server: url + path is a relative URL when
\* url is '', which only a web build resolves (against its own origin).
CanAnswer(url) == url.s # <<>> \/ platformOS = "web"

\* FALLBACK_URLS: the configured list, split at "," and trimmed
FALLBACK_URLS ==
  LET raw == getEnvVar("FALLBACK_API_URLS", Str(FALLBACK_DEFAULT)).s
      parts == split(raw, ",")
  IN  [k \in 1..Len(parts) |-> Str(trim(parts[k]))]

DEFAULT_PROBE_TIMEOUT == 3000
MIN_PROBE_TIMEOUT == 50

\* typeof v
TypeOf(v) == IF v.t = "NaN" THEN "number" ELSE IF v.t = "null" THEN "object" ELSE v.t

\* isNaN(v), for v a number
IsNaN(v) == v.t = "NaN"

\* the timeout check with "below 0" in place of "below 50"
sanitizeTimeout_negativeOnly(timeout) ==
  LET t == IF timeout = Undef THEN Num(DEFAULT_PROBE_TIMEOUT) ELSE timeout
  IN  IF TypeOf(t) # "number" \/ IsNaN(t) \/ t.n < 0
      THEN Num(DEFAULT_PROBE_TIMEOUT) ELSE t

\* (timeout = 3000) and the defensive reset of findWorkingApiUrl
sanitizeTimeout(timeout) ==
  LET t == IF timeout = Undef THEN Num(DEFAULT_PROBE_TIMEOUT) ELSE timeout
  IN  IF TypeOf(t) # "number" \/ IsNaN(t) \/ t.n < MIN_PROBE_TIMEOUT
      THEN Num(DEFAULT_PROBE_TIMEOUT) ELSE t

\* the candidate list without the duplicate filter
testUrlsOf_noFilter == <<resolveApiBaseUrl>> \o FALLBACK_URLS

\* testUrls of findWorkingApiUrl
testUrlsOf == FilterFirst(<<resolveApiBaseUrl>> \o FALLBACK_URLS, 1)

\* A findWorkingApiUrl() call.  pc: "idle" before the call, "fetch" while the
\* fetch of testUrls[i] is awaited, "done" after the return.  timers: the
\* candidates whose timeout timer is armed and neither cleared nor fired.
\* log: one entry per probe issued, in order.
IdleRun ==
  [pc |-> "idle", arg |-> Undef, timeout |-> Undef, testUrls |-> <<>>,
   i |-> 0, timers |-> {}, log |-> <<>>, result |-> NotCalled]

\* the fall-through return answering the last candidate probed
fwIterate_lastProbed(r) ==
  IF r.i < Len(r.testUrls)
  THEN [r EXCEPT !.pc = "fetch", !.i = r.i + 1,
                 !.timers = @ \cup {r.i + 1},
                 !.log = Append(@, [url |-> r.testUrls[r.i + 1],
                                    timer |-> r.timeout,
                                    outcome |-> "pending"])]
  ELSE [r EXCEPT !.pc = "done", !.result = r.testUrls[r.i]]

\* The head of the for loop: arm the timer and issue the fetch of the next
\* candidate, or leave the loop and return resolveApiBaseUrl().
fwIterate(r) ==
  IF r.i < Len(r.testUrls)
  THEN [r EXCEPT !.pc = "fetch", !.i = r.i + 1,
                 !.timers = @ \cup {r.i + 1},
                 !.log = Append(@, [url |-> r.testUrls[r.i + 1],
                                    timer |-> r.timeout,
                                    outcome |-> "pending"])]
  ELSE [r EXCEPT !.pc = "done", !.result = resolveApiBaseUrl]

\* the fetches of all the candidates issued together, none awaited first
fwStart_allAtOnce(arg) ==
  LET r == [IdleRun EXCEPT !.arg = arg,
                           !.timeout = sanitizeTimeout(arg),
                           !.testUrls = testUrlsOf]
  IN  [r EXCEPT !.pc = "fetch", !.i = 1,
                !.timers = 1..Len(r.testUrls),
                !.log = [k \in 1..Len(r.testUrls) |->
                           [url |-> r.testUrls[k], timer |-> r.timeout,
                            outcome |-> "pending"]]]

\* findWorkingApiUrl(arg) up to its first await
fwStart(arg) ==
  fwIterate([IdleRun EXCEPT !.arg = arg,
                            !.timeout = sanitizeTimeout(arg),
                            !.testUrls = testUrlsOf])

\* an ok response that does not end the loop
fwSettle_noShortCircuit(r, outcome) ==
  LET logged == [r EXCEPT !.log[r.i].outcome = outcome]
      cleared == [logged EXCEPT !.timers = @ \ {r.i}]
  IN  CASE outcome = "ok" ->
             fwIterate([cleared EXCEPT !.result = r.testUrls[r.i]])
        [] outcome = "status" -> fwIterate(cleared)
        [] outcome = "error" -> fwIterate(logged)
        [] outcome = "timeout" -> fwIterate(cleared)

\* a rejected fetch not caught in the loop: the call rejects
fwSettle_raise(r, outcome) ==
  LET logged == [r EXCEPT !.log[r.i].outcome = outcome]
      cleared == [logged EXCEPT !.timers = @ \ {r.i}]
  IN  CASE outcome = "ok" ->
             [cleared EXCEPT !.pc = "done", !.result = r.testUrls[r.i]]
        [] outcome = "status" -> fwIterate(cleared)
        [] outcome = "error" -> [logged EXCEPT !.pc = "raised"]
        [] outcome = "timeout" -> [cleared EXCEPT !.pc = "raised"]

\* a timer whose firing does not abort the fetch: the fetch stays awaited
fwSettle_noAbort(r, outcome) ==
  LET logged == [r EXCEPT !.log[r.i].outcome = outcome]
      cleared == [logged EXCEPT !.timers = @ \ {r.i}]
  IN  CASE outcome = "ok" ->
             [cleared EXCEPT !.pc = "done", !.result = r.testUrls[r.i]]
        [] outcome = "status" -> fwIterate(cleared)
        [] outcome = "error" -> fwIterate(logged)
        [] outcome = "timeout" -> [r EXCEPT !.timers = @ \ {r.i}]

\* The awaited fetch of testUrls[i] settles:
\*   "ok"      a response with response.ok: clearTimeout, return the url
\*   "status"  a response without response.ok: clearTimeout, next candidate
\*   "error"   the fetch rejects: caught, the timer stays armed, next candidate
\*   "timeout" the timer fires, controller.abort() rejects the fetch: caught
fwSettle(r, outcome) ==
  LET logged == [r EXCEPT !.log[r.i].outcome = outcome]
      cleared == [logged EXCEPT !.timers = @ \ {r.i}]
  IN  CASE outcome = "ok" ->
             [cleared EXCEPT !.pc = "done", !.result = r.testUrls[r.i]]
        [] outcome = "status" -> fwIterate(cleared)
        [] outcome = "error" -> fwIterate(logged)
        [] outcome = "timeout" -> fwIterate(cleared)

\* one AbortController shared by the probes: a late timer aborts the fetch
\* that is awaited now
fwLateTimer_sharedController(r, j) ==
  IF r.pc = "fetch"
  THEN fwIterate([r EXCEPT !.log[r.i].outcome = "timeout",
                           !.timers = @ \ {j}])
  ELSE [r EXCEPT !.timers = @ \ {j}]

\* the timer of a settled probe j fires: controller j aborts, nothing listens
fwLateTimer(r, j) == [r EXCEPT !.timers = @ \ {j}]

----------------------------------------------------------------------------
(* The environments the resolver is exercised on *)

HostUris ==
  {Undef, Str(<<>>), Str(<<"h">>), Str(<<"h", ":", "8">>),
   Str(<<"1", ".", "2", ":", "8", "0">>)}

ExtraObjs ==
  {Obj(f) : f \in
     [{"apiBaseUrl"} -> {Undef, Str(<<>>), Str(UrlA)}]}
  \cup {Obj([apiBaseUrl |-> b, androidEmulatorApiUrl |-> Str(UrlE),
             iosSimulatorApiUrl |-> Str(UrlI), deviceApiUrl |-> Str(UrlB)]) :
          b \in {Undef, Str(UrlA)}}

\* extra objects that define keys with falsy and with truthy values
FalsyExtras ==
  {Obj([apiBaseUrl |-> Str(<<>>), apiTimeout |-> Num(0),
        debugMode |-> Bool(FALSE)]),
   Obj([apiBaseUrl |-> Str(UrlA), apiTimeout |-> Num(5000),
        debugMode |-> Bool(TRUE)])}

\* extra objects that configure the boolean flags as strings
FlagExtras ==
  {Obj([debugMode |-> Str(TRUE_STR),
        enableNetworkDebugging |-> Str(<<"f", "a", "l", "s", "e">>),
        enableApiLogging |-> Str(<<"n", "o">>)])}

ExpoConfigs ==
  {Null} \cup {Obj([hostUri |-> h, extra |-> e]) :
                 h \in HostUris, e \in ExtraObjs \cup {Undef}}
  \cup {Obj([hostUri |-> Undef, extra |-> e]) :
          e \in FalsyExtras \cup FlagExtras}

Manifests == {Null, Obj([extra |-> Obj([apiBaseUrl |-> Str(UrlB)])])}

ProcessEnvs ==
  {Obj(<<>>), Obj([API_BASE_URL |-> Str(UrlB)]),
   Obj([API_BASE_URL |-> Str(UrlB), API_TIMEOUT |-> Str(<<"7">>),
        DEBUG_MODE |-> Str(<<"f", "a", "l", "s", "e">>),
        ENABLE_API_LOGGING |-> Str(TRUE_STR), CUSTOM_KEY |-> Str(<<"c">>)])}

Platforms == {"android", "ios", "web"}


EnvInit ==
  /\ dev \in BOOLEAN
  /\ expoConfig \in ExpoConfigs
  /\ manifest \in Manifests
  /\ processEnv \in ProcessEnvs
  /\ isDevice \in BOOLEAN
  /\ platformOS \in Platforms

\* the screen is not part of this specification
ScreenUnused ==
  /\ ui = Undef
  /\ shown = Undef
  /\ tasks = <<>>
  /\ alerts = {}
  /\ authToken = Null
  /\ mounted = FALSE
  /\ lastReturn = NotCalled
  /\ midBind = FALSE
  /\ app = NotCalled

InitResolver ==
  /\ EnvInit
  /\ resolved = NotCalled
  /\ nResolve = 0
  /\ run = IdleRun
  /\ looked = NotCalled
  /\ ScreenUnused

MaxResolve == 2

\* a resolver that consumes process.env when it reads it
CallResolve_consuming ==
  /\ nResolve < MaxResolve
  /\ resolved' = resolveApiBaseUrl
  /\ nResolve' = nResolve + 1
  /\ processEnv' = Obj(<<>>)
  /\ UNCHANGED <<app, dev, expoConfig, manifest, isDevice, platformOS, run,
                 looked, screenVars>>

\* one call of resolveApiBaseUrl()
CallResolve ==
  /\ nResolve < MaxResolve
  /\ resolved' = resolveApiBaseUrl
  /\ nResolve' = nResolve + 1
  /\ UNCHANGED <<app, envVars, run, looked, screenVars>>

LookupKeys == {"API_BASE_URL", "API_TIMEOUT", "DEBUG_MODE", "CUSTOM_KEY"}
LookupDefaults == {Undef, Str(<<"d">>)}

\* one call of getEnvVar(key, arg); (defaultValue = '') when arg is undefined
CallGetEnvVar ==
  /\ \E key \in LookupKeys, arg \in LookupDefaults :
       LET defaultValue == IF arg = Undef THEN Str(<<>>) ELSE arg
       IN  looked' = [key |-> key, defaultValue |-> defaultValue,
                      value |-> getEnvVar(key, defaultValue)]
  /\ UNCHANGED <<app, envVars, resolved, nResolve, run, screenVars>>

NextResolver ==
  \/ CallResolve
  \/ CallGetEnvVar

SpecResolver == InitResolver /\ [][NextResolver]_vars

----------------------------------------------------------------------------
(* The prober exercised on its own: one findWorkingApiUrl(arg) call *)

CommaSep(a, b, c) == a \o <<",">> \o b \o <<",">> \o c

FallbackLists ==
  {Undef,
   Str(CommaSep(UrlA, UrlB, UrlA)),
   Str(CommaSep(UrlA, <<>>, UrlB)),
   Str(CommaSep(<<" ">> \o UrlB \o <<" ">>, <<" ">>, UrlB)),
   Str(UrlB)}

ProberExtras ==
  {Obj([apiBaseUrl |-> b, fallbackApiUrls |-> f]) :
     b \in {Undef, Str(UrlA)}, f \in FallbackLists}

TimeoutArgs ==
  {Undef, Null, NaN, Str(UrlA), Num(-1), Num(0), Num(49), Num(50), Num(3000),
   Num(5000)}

InitProber ==
  /\ dev = FALSE
  /\ expoConfig \in {Obj([hostUri |-> Undef, extra |-> e]) : e \in ProberExtras}
  /\ manifest = Null
  /\ processEnv = Obj(<<>>)
  /\ isDevice \in BOOLEAN
  /\ platformOS \in {"android", "web"}
  /\ resolved = NotCalled
  /\ nResolve = 0
  /\ run = IdleRun
  /\ looked = NotCalled
  /\ ScreenUnused

FindStart ==
  /\ run.pc = "idle"
  /\ \E arg \in TimeoutArgs : run' = fwStart(arg)
  /\ UNCHANGED <<app, envVars, resolved, nResolve, looked, screenVars>>

FetchOk ==
  /\ run.pc = "fetch"
  /\ CanAnswer(run.testUrls[run.i])
  /\ run' = fwSettle(run, "ok")
  /\ UNCHANGED <<app, envVars, resolved, nResolve, looked, screenVars>>

FetchStatus ==
  /\ run.pc = "fetch"
  /\ CanAnswer(run.testUrls[run.i])
  /\ run' = fwSettle(run, "status")
  /\ UNCHANGED <<app, envVars, resolved, nResolve, looked, screenVars>>

FetchError ==
  /\ run.pc = "fetch"
  /\ run' = fwSettle(run, "error")
  /\ UNCHANGED <<app, envVars, resolved, nResolve, looked, screenVars>>

FetchTimeout ==
  /\ run.pc = "fetch"
  /\ run.i \in run.timers
  /\ run' = fwSettle(run, "timeout")
  /\ UNCHANGED <<app, envVars, resolved, nResolve, looked, screenVars>>

TimerLate ==
  /\ \E j \in run.timers :
       /\ ~(run.pc = "fetch" /\ j = run.i)
       /\ run' = fwLateTimer(run, j)
  /\ UNCHANGED <<app, envVars, resolved, nResolve, looked, screenVars>>

NextProber ==
  \/ FindStart
  \/ FetchOk
  \/ FetchStatus
  \/ FetchError
  \/ FetchTimeout
  \/ TimerLate

SpecProber == InitProber /\ [][NextProber]_vars

\* setTimeout(() => controller.abort(), timeout): the timer of the awaited
\* fetch fires if the fetch has not settled before, and the abort rejects it
SpecProberLive == SpecProber /\ WF_vars(FetchTimeout)

----------------------------------------------------------------------------
(* components/QRScannerScreen.js *)

CLIENT_TIMEOUT == 10000

\* API_BASE_URL: resolveApiBaseUrl() when the module loads
API_BASE_URL == resolveApiBaseUrl

\* axios.create({ baseURL: url, timeout: 10000 })
AxiosCreate(url) ==
  [baseURL |-> url, timeout |-> CLIENT_TIMEOUT, methods |-> TRUE]

\* a held client reference that lacks the request methods
InvalidClient ==
  [baseURL |-> Undef, timeout |-> 0, methods |-> FALSE]

\* !client || typeof client.post !== 'function'
NotReady(client) == ~client.methods

BEARER == <<"B", "e", "a", "r", "e", "r", " ">>

\* One invocation of an async handler.  held, heldUrl: the apiClient and the
\* workingApiUrl its closure captured; cur: its local currentApiClient, and
\* curGen which object that is: 0 the held one, k the k-th client this
\* invocation created; run: its findWorkingBackend() call; posts: the POSTs
\* it issued; the other fields record what it did (failedGen: the client
\* whose health check failed; answered: a request of it got an ok answer;
\* answer: how its POST settled; scanUrl, of a markAsUsed invocation: the URL
\* the scan it confirms last rebound to, if it did).
NewTask(kind, data, held, heldUrl) ==
  [kind |-> kind, pc |-> "pre", data |-> data, held |-> held,
   heldUrl |-> heldUrl, cur |-> held,
   curGen |-> 0, token |-> Undef, run |-> IdleRun, nRebind |-> 0,
   healthOk |-> FALSE, healthFailed |-> FALSE, failedGen |-> -1,
   rebindUrl |-> Undef, posts |-> <<>>, nPosts |-> 0,
   rebindAfterPost |-> FALSE, answered |-> FALSE, answer |-> "none",
   scanUrl |-> Undef]

\* What is kept of an invocation once it has returned: what its closure
\* holds (the alert's buttons belong to that closure), how many POSTs it
\* issued, how its requests were answered and, of a scan, the URL it
\* rebound to.
Returned(t) ==
  [NewTask(t.kind, t.data, t.held, t.heldUrl)
     EXCEPT !.pc = "done",
            !.nPosts = t.nPosts, !.answered = t.answered,
            !.answer = t.answer,
            !.rebindUrl = IF t.kind = "scan" THEN t.rebindUrl ELSE Undef]

\* What is kept of it once its alert has been answered: nothing of it is
\* read any more.
Ended(t) ==
  [NewTask(t.kind, Undef, InvalidClient, Undef) EXCEPT !.pc = "ended",
                                                       !.nPosts = t.nPosts]

\* const workingUrl = await findWorkingBackend() has returned url:
\* currentApiClient = axios.create({ baseURL: workingUrl, timeout: 10000 })
Rebound(t, url) ==
  [t EXCEPT !.cur = AxiosCreate(url),
            !.curGen = t.nRebind + 1,
            !.nRebind = @ + 1,
            !.rebindUrl = url,
            !.rebindAfterPost = (t.posts # <<>>),
            !.run = IdleRun]

\* setWorkingApiUrl(API_BASE_URL) in place of setWorkingApiUrl(workingUrl)
Bind_resolverUrl(state, client, url) ==
  [state EXCEPT !.apiClient = client, !.workingApiUrl = API_BASE_URL]

\* setApiClient(currentApiClient) without setWorkingApiUrl(workingUrl)
Bind_clientOnly(state, client, url) ==
  [state EXCEPT !.apiClient = client]

\* setApiClient(currentApiClient); setWorkingApiUrl(workingUrl)
Bind(state, client, url) ==
  [state EXCEPT !.apiClient = client, !.workingApiUrl = url]

\* the state between the two setState calls of a rebind: first names the
\* one that is called first
HalfBound(first, client, url) ==
  IF first = "client"
  THEN [ui EXCEPT !.apiClient = client]
  ELSE [ui EXCEPT !.workingApiUrl = url]

\* The setState calls made after an await: either each one is rendered at
\* once (a root that does not batch them), so that the state between the
\* two calls of a rebind is rendered and the render of the state after both
\* follows before anything else runs, or they are batched into a later
\* render.
Renders(half) ==
  \/ /\ shown' = half
     /\ midBind' = TRUE
  \/ UNCHANGED <<shown, midBind>>

\* a findWorkingBackend() call of the screen has returned url and the
\* handler has rebound
RebindDone(newUi, first, client, url) ==
  /\ lastReturn' = url
  /\ ui' = newUi
  /\ Renders(HalfBound(first, client, url))

\* the header built without the test of the token: 'Bearer ' + authToken
IssuePost_alwaysBearer(t, endpoint) ==
  [t EXCEPT !.pc = "post",
            !.nPosts = @ + 1,
            !.posts = Append(@,
              [endpoint |-> endpoint,
               client |-> t.cur,
               gen |-> t.curGen,
               body |-> [qr_data |-> t.data],
               auth |-> Str(BEARER \o (IF t.token.t = "string" THEN t.token.s
                                       ELSE <<"n", "u", "l", "l">>))])]

\* the POST sent through the client of the closure, not the local one
IssuePost_heldClient(t, endpoint) ==
  [t EXCEPT !.pc = "post",
            !.nPosts = @ + 1,
            !.posts = Append(@,
              [endpoint |-> endpoint,
               client |-> IF NotReady(t.held) THEN t.cur ELSE t.held,
               gen |-> IF NotReady(t.held) THEN t.curGen ELSE 0,
               body |-> [qr_data |-> t.data],
               auth |-> IF Truthy(t.token)
                        THEN Str(BEARER \o t.token.s) ELSE Undef])]

\* currentApiClient.post(endpoint, { qr_data }, authToken ? { headers } : {})
IssuePost(t, endpoint) ==
  [t EXCEPT !.pc = "post",
            !.nPosts = @ + 1,
            !.posts = Append(@,
              [endpoint |-> endpoint,
               client |-> t.cur,
               gen |-> t.curGen,
               body |-> [qr_data |-> t.data],
               auth |-> IF Truthy(t.token)
                        THEN Str(BEARER \o t.token.s) ELSE Undef])]

\* how the awaited fetch of the current candidate may settle
ProbeOutcomes(r) ==
  IF r.pc # "fetch" THEN {}
  ELSE IF CanAnswer(r.testUrls[r.i]) THEN {"ok", "error"} ELSE {"error"}

\* the invocation after the awaited fetch of its prober run has settled
Probed(t, outcome) ==
  [t EXCEPT !.run = fwSettle(t.run, outcome),
            !.answered = @ \/ outcome = "ok"]

TaskIds == 1..Len(tasks)

\* Alert.alert(kind, ...) raised by invocation id; url: the URL its text names
AlertOf(kind, id, data, url) ==
  [kind |-> kind, from |-> id, data |-> data, url |-> url]

----------------------------------------------------------------------------
(* The screen: its environment, bounds and actions *)

MaxScans == 1
MaxTests == 1
Payloads == {"q1"}

ScreenExtras ==
  {Obj([apiBaseUrl |-> Undef, fallbackApiUrls |-> Str(UrlB),
        apiTimeout |-> Undef]),
   Obj([apiBaseUrl |-> Str(UrlA), fallbackApiUrls |-> Str(UrlB),
        apiTimeout |-> Str(<<"5", "0", "0", "0">>)])}

Init ==
  /\ dev = FALSE
  /\ expoConfig \in {Obj([hostUri |-> Undef, extra |-> e]) : e \in ScreenExtras}
  /\ manifest = Null
  /\ processEnv = Obj(<<>>)
  /\ isDevice = TRUE
  /\ platformOS = "android"
  /\ resolved = NotCalled
  /\ nResolve = 0
  /\ run = IdleRun
  /\ looked = NotCalled
  /\ \E c \in {AxiosCreate(API_BASE_URL), InvalidClient} :
       ui = [hasPermission |-> "null", scanned |-> FALSE, loading |-> FALSE,
             workingApiUrl |-> API_BASE_URL, apiClient |-> c]
  /\ shown = ui
  /\ tasks = <<>>
  /\ alerts = {}
  /\ authToken \in {Null, Str(<<"u">>)}
  /\ mounted = FALSE
  /\ lastReturn = NotCalled
  /\ midBind = FALSE
  /\ app = NotCalled

\* useEffect(() => { getCameraPermissions(); initializeBackend(); }, [])
Mount ==
  /\ ~midBind
  /\ ~mounted
  /\ mounted' = TRUE
  /\ tasks' = Append(tasks,
       [NewTask("init", Undef, shown.apiClient, shown.workingApiUrl)
          EXCEPT !.pc = "probing", !.run = fwStart(Undef)])
  /\ UNCHANGED <<app, envVars, harnessVars, histVars, ui, shown, alerts, authToken>>

\* Camera.requestCameraPermissionsAsync() answers
PermissionResult ==
  /\ ~midBind
  /\ mounted
  /\ ui.hasPermission = "null"
  /\ \E status \in {"granted", "denied"} :
       ui' = [ui EXCEPT !.hasPermission = status]
  /\ UNCHANGED <<app, envVars, harnessVars, histVars, shown, tasks, alerts,
                 authToken, mounted>>

\* the Grant Permission button, and the user granting it
GrantPermission ==
  /\ ~midBind
  /\ shown.hasPermission = "denied"
  /\ ui' = [ui EXCEPT !.hasPermission = "granted"]
  /\ UNCHANGED <<app, envVars, harnessVars, histVars, shown, tasks, alerts,
                 authToken, mounted>>

\* React renders the component with the state as last set
Render ==
  /\ shown # ui \/ midBind
  /\ shown' = ui
  /\ midBind' = FALSE
  /\ UNCHANGED <<app, envVars, harnessVars, lastReturn, ui, tasks, alerts,
                 authToken, mounted>>

\* initializeBackend: a probe of its findWorkingBackend() settles; when the
\* call returns, setWorkingApiUrl and setApiClient
InitProbe(id) ==
  \E outcome \in ProbeOutcomes(tasks[id].run) :
  LET t == Probed(tasks[id], outcome)
  IN  /\ ~midBind
      /\ t.kind = "init"
      /\ t.pc = "probing"
      /\ IF t.run.pc = "done"
         THEN LET t2 == Rebound(t, t.run.result)
              IN  /\ tasks' = [tasks EXCEPT ![id] = Returned(t2)]
                  /\ RebindDone(Bind(ui, t2.cur, t.run.result), "url",
                                t2.cur, t.run.result)
         ELSE /\ tasks' = [tasks EXCEPT ![id] = t]
              /\ UNCHANGED <<ui, shown, histVars>>
      /\ UNCHANGED <<app, envVars, harnessVars, alerts, authToken, mounted>>

\* onBarcodeScanned={scanned ? undefined : handleBarCodeScanned} delivers a
\* scan to the handler of the last render, which returns at once when that
\* render's scanned or loading is set; else setScanned(true),
\* setLoading(true), await triggerHaptic; n bounds the scans delivered
ScanEventUpTo(data, n) ==
  /\ ~midBind
  /\ mounted
  /\ shown.hasPermission = "granted"
  /\ ~shown.scanned
  /\ ~(shown.scanned \/ shown.loading)
  /\ Cardinality({id \in TaskIds : tasks[id].kind = "scan"}) < n
  /\ ui' = [ui EXCEPT !.scanned = TRUE, !.loading = TRUE]
  /\ tasks' = Append(tasks,
       NewTask("scan", data, shown.apiClient, shown.workingApiUrl))
  /\ UNCHANGED <<app, envVars, harnessVars, histVars, shown, alerts,
                 authToken, mounted>>

ScanEvent(data) == ScanEventUpTo(data, MaxScans)

\* handleBarCodeScanned after the haptic and SecureStore.getItemAsync: the
\* client check, then findWorkingBackend() or the health GET
ScanPre(id) ==
  LET t == [tasks[id] EXCEPT !.token = authToken]
  IN  /\ ~midBind
      /\ tasks[id].kind = "scan"
      /\ tasks[id].pc = "pre"
      /\ tasks' = [tasks EXCEPT ![id] =
           IF NotReady(t.cur)
           THEN [t EXCEPT !.pc = "rebind0", !.run = fwStart(Undef)]
           ELSE [t EXCEPT !.pc = "health"]]
      /\ UNCHANGED <<app, envVars, harnessVars, histVars, ui, shown, alerts,
                     authToken, mounted>>

\* the scan after a findWorkingBackend() return: the health GET after the
\* rebind for a client that was not ready, the verify POST after the
\* rebind for a failed health check
ScanAfterRebind(t) ==
  IF t.pc = "rebind0" THEN [t EXCEPT !.pc = "health"]
  ELSE IssuePost(t, "verify")

\* handleBarCodeScanned: a probe of its findWorkingBackend() settles
ScanProbe(id) ==
  \E outcome \in ProbeOutcomes(tasks[id].run) :
  LET t == Probed(tasks[id], outcome)
  IN  /\ ~midBind
      /\ t.kind = "scan"
      /\ t.pc \in {"rebind0", "rebind1"}
      /\ IF t.run.pc = "done"
         THEN LET t2 == Rebound(t, t.run.result)
              IN  /\ tasks' = [tasks EXCEPT ![id] = ScanAfterRebind(t2)]
                  /\ RebindDone(Bind(ui, t2.cur, t.run.result), "client",
                                t2.cur, t.run.result)
         ELSE /\ tasks' = [tasks EXCEPT ![id] = t]
              /\ UNCHANGED <<ui, shown, histVars>>
      /\ UNCHANGED <<app, envVars, harnessVars, alerts, authToken, mounted>>

\* the health GET answers ok: the verify POST is issued
ScanHealthOk(id) ==
  LET t == tasks[id]
  IN  /\ ~midBind
      /\ t.kind = "scan"
      /\ t.pc = "health"
      /\ CanAnswer(t.cur.baseURL)
      /\ tasks' = [tasks EXCEPT ![id] =
           IssuePost([t EXCEPT !.healthOk = TRUE, !.answered = TRUE],
                     "verify")]
      /\ UNCHANGED <<app, envVars, harnessVars, histVars, ui, shown, alerts,
                     authToken, mounted>>

\* the health GET fails: findWorkingBackend() is called
ScanHealthFail(id) ==
  LET t == tasks[id]
  IN  /\ ~midBind
      /\ t.kind = "scan"
      /\ t.pc = "health"
      /\ tasks' = [tasks EXCEPT ![id] =
           [t EXCEPT !.pc = "rebind1", !.healthFailed = TRUE,
                     !.failedGen = t.curGen, !.run = fwStart(Undef)]]
      /\ UNCHANGED <<app, envVars, harnessVars, histVars, ui, shown, alerts,
                     authToken, mounted>>

\* what the server, or the failure to reach it, answers to a POST
PostAnswers(client, ok) ==
  IF CanAnswer(client.baseURL) THEN ok \cup {"failed"} ELSE {"failed"}

\* a failed POST answered by one more findWorkingBackend() and POST
AfterPost_retry(t, answer) ==
  IF answer = "failed" /\ t.nPosts < 2
  THEN [t EXCEPT !.pc = IF t.kind = "scan" THEN "rebind1" ELSE "rebind0",
                 !.run = fwStart(Undef)]
  ELSE Returned(t)

\* the handler once its POST has settled, whatever the answer: an Alert,
\* finally setLoading(false), and it returns
AfterPost(t, answer) ==
  Returned([t EXCEPT !.answer = answer,
                     !.answered = @ \/ answer # "failed"])

VerifyAlert(answer) ==
  CASE answer = "valid" -> "Valid Ticket"
    [] answer = "used" -> "Already Used"
    [] answer = "invalid" -> "Invalid QR"
    [] answer = "failed" -> "Error"

\* the verify POST settles: the haptic, the Alert, finally setLoading(false)
ScanPostResponse(id) ==
  LET t == tasks[id]
  IN  /\ ~midBind
      /\ t.kind = "scan"
      /\ t.pc = "post"
      /\ \E answer \in PostAnswers(t.posts[Len(t.posts)].client,
                                   {"valid", "used", "invalid"}) :
           /\ alerts' = alerts \cup
                {AlertOf(VerifyAlert(answer), id, t.data, Undef)}
           /\ tasks' = [tasks EXCEPT ![id] = AfterPost(t, answer)]
      /\ ui' = [ui EXCEPT !.loading = FALSE]
      /\ UNCHANGED <<app, envVars, harnessVars, histVars, shown, authToken,
                     mounted>>

\* 'Mark as Used' offered by every alert of a verification
AlertMarkUsed_anyVerifyAlert(a) ==
  /\ ~midBind
  /\ tasks[a.from].kind = "scan"
  /\ alerts' = alerts \ {a}
  /\ ui' = [ui EXCEPT !.loading = TRUE]
  /\ tasks' = Append([tasks EXCEPT ![a.from] = Ended(@)],
                     [NewTask("mark", a.data, tasks[a.from].held,
                              tasks[a.from].heldUrl)
                        EXCEPT !.scanUrl = tasks[a.from].rebindUrl])
  /\ UNCHANGED <<app, envVars, harnessVars, histVars, shown, authToken,
                 mounted>>

\* 'Mark as Used' of the Valid Ticket alert: markAsUsed(data) of the render
\* the scan handler belongs to; setLoading(true), await triggerHaptic
AlertMarkUsed(a) ==
  /\ ~midBind
  /\ a.kind = "Valid Ticket"
  /\ alerts' = alerts \ {a}
  /\ ui' = [ui EXCEPT !.loading = TRUE]
  /\ tasks' = Append([tasks EXCEPT ![a.from] = Ended(@)],
                     [NewTask("mark", a.data, tasks[a.from].held,
                              tasks[a.from].heldUrl)
                        EXCEPT !.scanUrl = tasks[a.from].rebindUrl])
  /\ UNCHANGED <<app, envVars, harnessVars, histVars, shown, authToken, mounted>>

\* the alert keeps scanned set when it is answered
AlertReset_keepScanned(a) ==
  /\ ~midBind
  /\ tasks[a.from].kind \in {"scan", "mark"}
  /\ alerts' = alerts \ {a}
  /\ tasks' = [tasks EXCEPT ![a.from] = Ended(@)]
  /\ UNCHANGED <<app, envVars, harnessVars, histVars, ui, shown, authToken,
                 mounted>>

\* a button of an alert whose onPress is resetScanner: setScanned(false)
AlertReset(a) ==
  /\ ~midBind
  /\ tasks[a.from].kind \in {"scan", "mark"}
  /\ alerts' = alerts \ {a}
  /\ ui' = [ui EXCEPT !.scanned = FALSE]
  /\ tasks' = [tasks EXCEPT ![a.from] = Ended(@)]
  /\ UNCHANGED <<app, envVars, harnessVars, histVars, shown, authToken, mounted>>

\* the Scan Again button, rendered when scanned && !loading: resetScanner
ScanAgain ==
  /\ ~midBind
  /\ shown.hasPermission = "granted"
  /\ shown.scanned /\ ~shown.loading
  /\ ui.scanned
  /\ ui' = [ui EXCEPT !.scanned = FALSE]
  /\ UNCHANGED <<app, envVars, harnessVars, histVars, shown, tasks, alerts,
                 authToken, mounted>>

\* markAsUsed after the haptic and SecureStore.getItemAsync: the client
\* check, then findWorkingBackend() or the mark-used POST
MarkPre(id) ==
  LET t == [tasks[id] EXCEPT !.token = authToken]
  IN  /\ ~midBind
      /\ tasks[id].kind = "mark"
      /\ tasks[id].pc = "pre"
      /\ tasks' = [tasks EXCEPT ![id] =
           IF NotReady(t.cur)
           THEN [t EXCEPT !.pc = "rebind0", !.run = fwStart(Undef)]
           ELSE IssuePost(t, "markUsed")]
      /\ UNCHANGED <<app, envVars, harnessVars, histVars, ui, shown, alerts,
                     authToken, mounted>>

\* markAsUsed: a probe of its findWorkingBackend() settles; when the call
\* returns, the new client is bound and the mark-used POST issued
MarkProbe(id) ==
  \E outcome \in ProbeOutcomes(tasks[id].run) :
  LET t == Probed(tasks[id], outcome)
  IN  /\ ~midBind
      /\ t.kind = "mark"
      /\ t.pc = "rebind0"
      /\ IF t.run.pc = "done"
         THEN LET t2 == Rebound(t, t.run.result)
              IN  /\ tasks' = [tasks EXCEPT ![id] = IssuePost(t2, "markUsed")]
                  /\ RebindDone(Bind(ui, t2.cur, t.run.result), "client",
                                t2.cur, t.run.result)
         ELSE /\ tasks' = [tasks EXCEPT ![id] = t]
              /\ UNCHANGED <<ui, shown, histVars>>
      /\ UNCHANGED <<app, envVars, harnessVars, alerts, authToken, mounted>>

\* the mark-used POST settles: the haptic, the Alert, setLoading(false)
MarkPostResponse(id) ==
  LET t == tasks[id]
  IN  /\ ~midBind
      /\ t.kind = "mark"
      /\ t.pc = "post"
      /\ \E answer \in PostAnswers(t.posts[Len(t.posts)].client,
                                   {"marked", "refused"}) :
           /\ alerts' = alerts \cup
                {AlertOf(IF answer = "marked" THEN "Success" ELSE "Error",
                         id, t.data, Undef)}
           /\ tasks' = [tasks EXCEPT ![id] = AfterPost(t, answer)]
      /\ ui' = [ui EXCEPT !.loading = FALSE]
      /\ UNCHANGED <<app, envVars, harnessVars, histVars, shown, authToken,
                     mounted>>

\* the wifi button of the last render: testNetworkConnectivity;
\* setLoading(true), the client check, then findWorkingBackend() or the
\* health GET
TestPress ==
  /\ ~midBind
  /\ mounted
  /\ shown.hasPermission = "granted"
  /\ Cardinality({id \in TaskIds : tasks[id].kind = "test"}) < MaxTests
  /\ ui' = [ui EXCEPT !.loading = TRUE]
  /\ tasks' = Append(tasks,
       LET t == NewTask("test", Undef, shown.apiClient, shown.workingApiUrl)
       IN  IF NotReady(t.cur)
           THEN [t EXCEPT !.pc = "rebind0", !.run = fwStart(Undef)]
           ELSE [t EXCEPT !.pc = "health"])
  /\ UNCHANGED <<app, envVars, harnessVars, histVars, shown, alerts, authToken,
                 mounted>>

\* testNetworkConnectivity: a probe of a findWorkingBackend() of it settles.
\* The call for a client that was not ready returns: the new client is bound
\* and the health GET issued.  The call of the catch block returns:
\* setWorkingApiUrl, setApiClient, the 'Retry Success' alert naming the URL
\* returned, finally setLoading(false).
TestProbe(id) ==
  \E outcome \in ProbeOutcomes(tasks[id].run) :
  LET t == Probed(tasks[id], outcome)
  IN  /\ ~midBind
      /\ t.kind = "test"
      /\ t.pc \in {"rebind0", "retry"}
      /\ IF t.run.pc = "done"
         THEN LET t2 == Rebound(t, t.run.result)
              IN  IF t.pc = "rebind0"
                  THEN /\ tasks' = [tasks EXCEPT ![id] =
                                      [t2 EXCEPT !.pc = "health"]]
                       /\ RebindDone(Bind(ui, t2.cur, t.run.result),
                                     "client", t2.cur, t.run.result)
                       /\ UNCHANGED alerts
                  ELSE /\ tasks' = [tasks EXCEPT ![id] = Returned(t2)]
                       /\ RebindDone(
                            [Bind(ui, t2.cur, t.run.result)
                               EXCEPT !.loading = FALSE],
                            "url", t2.cur, t.run.result)
                       /\ alerts' = alerts \cup
                            {AlertOf("Retry Success", id, t.data,
                                     t.run.result)}
         ELSE /\ tasks' = [tasks EXCEPT ![id] = t]
              /\ UNCHANGED <<ui, shown, histVars, alerts>>
      /\ UNCHANGED <<app, envVars, harnessVars, authToken, mounted>>

\* the health GET of testNetworkConnectivity answers ok: the 'Success' alert
\* naming the workingApiUrl of the closure, finally setLoading(false)
TestHealthOk(id) ==
  LET t == tasks[id]
  IN  /\ ~midBind
      /\ t.kind = "test"
      /\ t.pc = "health"
      /\ CanAnswer(t.cur.baseURL)
      /\ alerts' = alerts \cup {AlertOf("Success", id, t.data, t.heldUrl)}
      /\ tasks' = [tasks EXCEPT ![id] =
           Returned([t EXCEPT !.healthOk = TRUE, !.answered = TRUE])]
      /\ ui' = [ui EXCEPT !.loading = FALSE]
      /\ UNCHANGED <<app, envVars, harnessVars, histVars, shown, authToken,
                     mounted>>

\* the health GET of testNetworkConnectivity fails: the catch block calls
\* findWorkingBackend()
TestHealthFail(id) ==
  LET t == tasks[id]
  IN  /\ ~midBind
      /\ t.kind = "test"
      /\ t.pc = "health"
      /\ tasks' = [tasks EXCEPT ![id] =
           [t EXCEPT !.pc = "retry", !.healthFailed = TRUE,
                     !.failedGen = t.curGen, !.run = fwStart(Undef)]]
      /\ UNCHANGED <<app, envVars, harnessVars, histVars, ui, shown, alerts,
                     authToken, mounted>>

\* the OK button of an alert of testNetworkConnectivity: no onPress
AlertDismiss(a) ==
  /\ ~midBind
  /\ tasks[a.from].kind = "test"
  /\ alerts' = alerts \ {a}
  /\ tasks' = [tasks EXCEPT ![a.from] = Ended(@)]
  /\ UNCHANGED <<app, envVars, harnessVars, histVars, ui, shown, authToken,
                 mounted>>

Next ==
  \/ Mount
  \/ PermissionResult
  \/ GrantPermission
  \/ Render
  \/ \E id \in TaskIds : InitProbe(id)
  \/ \E data \in Payloads : ScanEvent(data)
  \/ \E id \in TaskIds : ScanPre(id)
  \/ \E id \in TaskIds : ScanProbe(id)
  \/ \E id \in TaskIds : ScanHealthOk(id)
  \/ \E id \in TaskIds : ScanHealthFail(id)
  \/ \E id \in TaskIds : ScanPostResponse(id)
  \/ \E a \in alerts : AlertMarkUsed(a)
  \/ \E a \in alerts : AlertReset(a)
  \/ ScanAgain
  \/ \E id \in TaskIds : MarkPre(id)
  \/ \E id \in TaskIds : MarkProbe(id)
  \/ \E id \in TaskIds : MarkPostResponse(id)
  \/ TestPress
  \/ \E id \in TaskIds : TestProbe(id)
  \/ \E id \in TaskIds : TestHealthOk(id)
  \/ \E id \in TaskIds : TestHealthFail(id)
  \/ \E a \in alerts : AlertDismiss(a)

Spec == Init /\ [][Next]_vars

----------------------------------------------------------------------------
(* The scan cycle on its own: the screen once mounted, the permission
   granted and initializeBackend returned; two scans, two payloads *)

MaxScanEvents == 2
ScanPayloads == {"q1", "q2"}

\* what initializeBackend can have bound: a candidate that answered, or the
\* resolver's value when none did
InitBound ==
  {testUrlsOf[k] : k \in {j \in 1..Len(testUrlsOf) : CanAnswer(testUrlsOf[j])}}
    \cup {resolveApiBaseUrl}

InitScans ==
  /\ dev = FALSE
  /\ expoConfig \in {Obj([hostUri |-> Undef, extra |-> e]) : e \in ScreenExtras}
  /\ manifest = Null
  /\ processEnv = Obj(<<>>)
  /\ isDevice = TRUE
  /\ platformOS = "android"
  /\ resolved = NotCalled
  /\ nResolve = 0
  /\ run = IdleRun
  /\ looked = NotCalled
  /\ \E url \in InitBound :
       /\ ui = [hasPermission |-> "granted", scanned |-> FALSE,
                loading |-> FALSE, workingApiUrl |-> url,
                apiClient |-> AxiosCreate(url)]
       /\ lastReturn = url
  /\ shown = ui
  /\ tasks = <<>>
  /\ alerts = {}
  /\ authToken \in {Null, Str(<<>>), Str(<<"u">>)}
  /\ mounted = TRUE
  /\ midBind = FALSE
  /\ app = NotCalled

\* a scan delivered to the handler of the last render
ScanDelivered(data) == ScanEventUpTo(data, MaxScanEvents)

NextScans ==
  \/ Render
  \/ \E data \in ScanPayloads : ScanDelivered(data)
  \/ \E id \in TaskIds : ScanPre(id)
  \/ \E id \in TaskIds : ScanProbe(id)
  \/ \E id \in TaskIds : ScanHealthOk(id)
  \/ \E id \in TaskIds : ScanHealthFail(id)
  \/ \E id \in TaskIds : ScanPostResponse(id)
  \/ \E a \in alerts : AlertMarkUsed(a)
  \/ \E a \in alerts : AlertReset(a)
  \/ ScanAgain
  \/ \E id \in TaskIds : MarkPre(id)
  \/ \E id \in TaskIds : MarkPostResponse(id)

SpecScans == InitScans /\ [][NextScans]_vars

----------------------------------------------------------------------------
(* App.js: the stored session and the auth-state listener at start-up *)

\* a user object, of which the uid alone is kept
UserOf(uid) == Obj([uid |-> Str(uid)])

\* JSON.stringify(user)
JSONstringify(user) == <<"{">> \o user.o.uid.s \o <<"}">>

\* the SyntaxError JSON.parse throws
SyntaxError == [t |-> "SyntaxError"]

\* JSON.parse(text): the text null gives null, the text of an object gives
\* the object, any other text throws
JSONparse(text) ==
  IF text = <<"n", "u", "l", "l">> THEN Null
  ELSE IF /\ Len(text) >= 2
          /\ Head(text) = "{"
          /\ text[Len(text)] = "}"
          /\ \A k \in 2..(Len(text) - 1) : text[k] \notin {"{", "}"}
       THEN UserOf(SubSeq(text, 2, Len(text) - 1))
       ELSE SyntaxError

\* QRVerifierApp before its mount effect: userData is the stored entry;
\* check: the checkAuthStatus() call, its locals, whether its JSON.parse
\* threw and the entries it deleted; listener: the first callback of
\* onAuthStateChanged and the firebaseUser it got; stored: the two entries
\* as they were stored then.
IdleApp(userData, token) ==
  [userData |-> userData,
   isAuthenticated |-> FALSE, user |-> Null, loading |-> TRUE,
   check |-> [pc |-> "idle", userData |-> Undef, authToken |-> Undef,
              failed |-> FALSE, deleted |-> {}],
   listener |-> [pc |-> "idle", event |-> NotCalled],
   stored |-> [userData |-> userData, authToken |-> token]]

\* a parse failure that leaves the stored entries in place
checkStored_keepCorrupted(a) ==
  LET c == a.check
  IN  IF Truthy(c.userData) /\ Truthy(c.authToken)
      THEN LET parsedUser == JSONparse(c.userData.s)
           IN  IF parsedUser = SyntaxError
               THEN [a EXCEPT !.check.failed = TRUE, !.loading = FALSE,
                              !.check.pc = "done"]
               ELSE IF parsedUser = Null
               THEN [a EXCEPT !.user = parsedUser, !.isAuthenticated = TRUE,
                              !.check.pc = "deleteUserData"]
               ELSE [a EXCEPT !.user = parsedUser, !.isAuthenticated = TRUE,
                              !.loading = FALSE, !.check.pc = "done"]
      ELSE [a EXCEPT !.loading = FALSE, !.check.pc = "done"]

\* checkAuthStatus once both entries are read: if (userData && authToken),
\* JSON.parse; a user parsed is set and the session marked authenticated
\* (reading parsedUser.email then throws when the user parsed is null); what
\* is thrown is caught by the block that deletes the entries; finally
\* setLoading(false)
checkStored(a) ==
  LET c == a.check
  IN  IF Truthy(c.userData) /\ Truthy(c.authToken)
      THEN LET parsedUser == JSONparse(c.userData.s)
           IN  IF parsedUser = SyntaxError
               THEN [a EXCEPT !.check.failed = TRUE,
                              !.check.pc = "deleteUserData"]
               ELSE IF parsedUser = Null
               THEN [a EXCEPT !.user = parsedUser, !.isAuthenticated = TRUE,
                              !.check.pc = "deleteUserData"]
               ELSE [a EXCEPT !.user = parsedUser, !.isAuthenticated = TRUE,
                              !.loading = FALSE, !.check.pc = "done"]
      ELSE [a EXCEPT !.loading = FALSE, !.check.pc = "done"]

StoredUserData ==
  {Null, Str(<<>>), Str(<<"{", "s", "}">>), Str(<<"{", "f", "}">>),
   Str(<<"{", "s">>), Str(<<"n", "u", "l", "l">>)}

StoredTokens == {Null, Str(<<>>), Str(<<"s">>)}

\* what the first callback of the listener gets: null or a signed-in user
FirebaseUsers == {Null, Obj([uid |-> Str(<<"f">>)])}

InitApp ==
  /\ dev = FALSE
  /\ expoConfig = Null
  /\ manifest = Null
  /\ processEnv = Obj(<<>>)
  /\ isDevice = TRUE
  /\ platformOS = "android"
  /\ resolved = NotCalled
  /\ nResolve = 0
  /\ run = IdleRun
  /\ looked = NotCalled
  /\ ui = Undef
  /\ shown = Undef
  /\ tasks = <<>>
  /\ alerts = {}
  /\ mounted = FALSE
  /\ lastReturn = NotCalled
  /\ midBind = FALSE
  /\ authToken \in StoredTokens
  /\ \E userData \in StoredUserData : app = IdleApp(userData, authToken)

appFrame ==
  <<envVars, harnessVars, ui, shown, tasks, alerts, mounted, histVars>>

\* the mount effect: checkAuthStatus() runs up to its first await, and the
\* listener is subscribed
AppMount ==
  /\ app.check.pc = "idle"
  /\ app' = [app EXCEPT !.check.pc = "getUserData",
                        !.listener.pc = "subscribed"]
  /\ UNCHANGED <<appFrame, authToken>>

\* const userData = await SecureStore.getItemAsync('userData')
CheckGetUserData ==
  /\ app.check.pc = "getUserData"
  /\ app' = [app EXCEPT !.check.userData = app.userData,
                        !.check.pc = "getAuthToken"]
  /\ UNCHANGED <<appFrame, authToken>>

\* const authToken = await SecureStore.getItemAsync('authToken'), and what
\* follows up to the next await or the return
CheckGetAuthToken ==
  /\ app.check.pc = "getAuthToken"
  /\ app' = checkStored([app EXCEPT !.check.authToken = authToken])
  /\ UNCHANGED <<appFrame, authToken>>

\* await SecureStore.deleteItemAsync('userData')
CheckDeleteUserData ==
  /\ app.check.pc = "deleteUserData"
  /\ app' = [app EXCEPT !.userData = Null,
                        !.check.deleted = @ \cup {"userData"},
                        !.check.pc = "deleteAuthToken"]
  /\ UNCHANGED <<appFrame, authToken>>

\* await SecureStore.deleteItemAsync('authToken'); finally setLoading(false)
CheckDeleteAuthToken ==
  /\ app.check.pc = "deleteAuthToken"
  /\ authToken' = Null
  /\ app' = [app EXCEPT !.check.deleted = @ \cup {"authToken"},
                        !.loading = FALSE,
                        !.check.pc = "done"]
  /\ UNCHANGED appFrame

\* the first callback of the listener: a signed-out state sets user null and
\* isAuthenticated false; a signed-in one builds userData and awaits its
\* storing
ListenerFires ==
  /\ app.listener.pc = "subscribed"
  /\ \E firebaseUser \in FirebaseUsers :
       app' = IF Truthy(firebaseUser)
              THEN [app EXCEPT !.listener.event = firebaseUser,
                               !.listener.pc = "setUserData"]
              ELSE [app EXCEPT !.listener.event = firebaseUser,
                               !.user = Null, !.isAuthenticated = FALSE,
                               !.loading = FALSE, !.listener.pc = "done"]
  /\ UNCHANGED <<appFrame, authToken>>

\* await SecureStore.setItemAsync('userData', JSON.stringify(userData))
ListenerSetUserData ==
  /\ app.listener.pc = "setUserData"
  /\ app' = [app EXCEPT
       !.userData = Str(JSONstringify(UserOf(app.listener.event.o.uid.s))),
       !.listener.pc = "setAuthToken"]
  /\ UNCHANGED <<appFrame, authToken>>

\* await SecureStore.setItemAsync('authToken', firebaseUser.uid);
\* setUser(userData); setIsAuthenticated(true); setLoading(false)
ListenerSetAuthToken ==
  /\ app.listener.pc = "setAuthToken"
  /\ authToken' = app.listener.event.o.uid
  /\ app' = [app EXCEPT !.user = UserOf(app.listener.event.o.uid.s),
                        !.isAuthenticated = TRUE,
                        !.loading = FALSE,
                        !.listener.pc = "done"]
  /\ UNCHANGED appFrame

NextApp ==
  \/ AppMount
  \/ CheckGetUserData
  \/ CheckGetAuthToken
  \/ CheckDeleteUserData
  \/ CheckDeleteAuthToken
  \/ ListenerFires
  \/ ListenerSetUserData
  \/ ListenerSetAuthToken

SpecApp == InitApp /\ [][NextApp]_vars

----------------------------------------------------------------------------
(* Claims about the resolver *)

\* the dev-host address, when there is one
DevHost == Get(expoConfig, "hostUri")

\* s up to, not including, its first ":" (all of s when it has none)
HostPart(s) ==
  LET n == CHOOSE k \in 0..Len(s) :
             /\ \A j \in 1..k : s[j] # ":"
             /\ (k = Len(s) \/ s[k + 1] = ":")
  IN  SubSeq(s, 1, n)

\* the value a configuration key resolves to, with its default
Configured(key, default) == getEnvVar(key, Str(default))

\* the decision list of the resolver, first match wins
DecisionList ==
  CASE dev /\ DevHost.t = "string" /\ DevHost.s # <<>> ->
         Str(HTTP \o HostPart(DevHost.s) \o PORT5000)
    [] OTHER ->
  CASE Configured("API_BASE_URL", <<>>).s # <<>> ->
         Configured("API_BASE_URL", <<>>)
    [] OTHER ->
  CASE isDevice -> Str(<<>>)
    [] OTHER ->
  CASE platformOS = "android" ->
         Configured("ANDROID_EMULATOR_API_URL", ANDROID_DEFAULT)
    [] OTHER -> Configured("IOS_SIMULATOR_API_URL", IOS_DEFAULT)

NoConfiguredBaseUrl ==
  /\ ~Truthy(Get(Get(expoConfig, "extra"), "apiBaseUrl"))
  /\ ~Truthy(Get(Get(manifest, "extra"), "apiBaseUrl"))
  /\ ~Truthy(Get(processEnv, "API_BASE_URL"))

\* C7: on a physical device with no configured API_BASE_URL and no dev-host
\* address the resolver returns exactly the empty string, whatever platform
\* and whatever emulator, simulator or device URLs are configured.
C7_DeviceUnresolved ==
  (/\ resolved # NotCalled
   /\ isDevice
   /\ ~Truthy(DevHost)
   /\ NoConfiguredBaseUrl)
  => resolved = Str(<<>>)

\* C7 witness: such a device, with a device URL configured, resolved to "".
C7_Witness ==
  /\ resolved = Str(<<>>)
  /\ isDevice
  /\ ~Truthy(DevHost)
  /\ NoConfiguredBaseUrl
  /\ Truthy(PLATFORM_API_CONFIG.DEVICE)

----------------------------------------------------------------------------
(* Claims about the prober *)

Failed == {"status", "error", "timeout"}

\* C1: the probes go through the candidates in list order, and an ok answer
\* of candidate k (every candidate before it having failed) ends the call
\* with result candidate k; no candidate after k is ever probed.
C1_FirstReachable ==
  \A k \in 1..Len(run.log) :
    /\ run.log[k].url = run.testUrls[k]
    /\ run.log[k].outcome = "ok" =>
         /\ k = Len(run.log)
         /\ run.pc = "done"
         /\ run.result = run.testUrls[k]
         /\ \A j \in 1..(k - 1) : run.log[j].outcome \in Failed

\* C1 witness: four candidates, the first two failed (one timed out, one
\* was refused), the third answered ok and was returned.
C1_Witness ==
  /\ Len(run.testUrls) = 4
  /\ Len(run.log) = 3
  /\ run.log[1].outcome = "timeout"
  /\ run.log[2].outcome = "error"
  /\ run.log[3].outcome = "ok"
  /\ run.pc = "done"
  /\ run.result = run.testUrls[3]
  /\ run.timers = {}

AllProbesFailed ==
  /\ run.pc = "done"
  /\ \A k \in 1..Len(run.log) : run.log[k].outcome \in Failed

\* C2: when every candidate's probe fails the call returns (it does not
\* raise) the value of resolveApiBaseUrl() at return time, a string that is
\* empty only if the resolver's value is empty.
C2_AllFailFallback ==
  AllProbesFailed =>
    /\ Len(run.log) = Len(run.testUrls)
    /\ run.result.t = "string"
    /\ run.result = resolveApiBaseUrl
    /\ (run.result = Str(<<>>) => resolveApiBaseUrl = Str(<<>>))

\* C2 witness: three candidates failed in the three ways and the call
\* returned the resolver's non-empty value.
C2_Witness ==
  /\ AllProbesFailed
  /\ Len(run.log) = 3
  /\ {run.log[k].outcome : k \in 1..3} = Failed
  /\ run.result = resolveApiBaseUrl
  /\ run.result # Str(<<>>)

\* C8: findWorkingApiUrl never returns the empty string unless the resolver
\* resolves to the empty string.
C8_NeverEmpty ==
  (run.pc = "done" /\ resolveApiBaseUrl # Str(<<>>))
    => run.result # Str(<<>>)

\* the first place of x in arr
FirstPlace(arr, x) ==
  CHOOSE i \in 1..Len(arr) : arr[i] = x /\ \A j \in 1..(i - 1) : arr[j] # x

\* C9: the candidate list is the resolver's result followed by the
\* configured fallbacks with later duplicates removed: never empty, first
\* element the resolver's result, no URL twice, the same URLs as the
\* undeduplicated list, first occurrences kept in their relative order.
C9_CandidateList ==
  run.pc # "idle" =>
    LET raw == <<resolveApiBaseUrl>> \o FALLBACK_URLS
        t == run.testUrls
    IN  /\ t # <<>>
        /\ t[1] = resolveApiBaseUrl
        /\ \A i, j \in 1..Len(t) : i # j => t[i] # t[j]
        /\ {t[i] : i \in 1..Len(t)} = {raw[i] : i \in 1..Len(raw)}
        /\ \A i, j \in 1..Len(t) :
             i < j => FirstPlace(raw, t[i]) < FirstPlace(raw, t[j])

\* C9 witness: best guess http://a with fallbacks "http://a,http://b,http://a"
\* gives [http://a, http://b].
C9_Witness ==
  /\ run.pc # "idle"
  /\ resolveApiBaseUrl = Str(UrlA)
  /\ Get(Get(expoConfig, "extra"), "fallbackApiUrls")
       = Str(CommaSep(UrlA, UrlB, UrlA))
  /\ run.testUrls = <<Str(UrlA), Str(UrlB)>>

\* the probe timeout the argument asks for
ExpectedTimeout(arg) ==
  IF arg.t = "number" /\ arg.n >= 50 THEN arg ELSE Num(3000)

\* C10: every probe's timer is armed with 3000 ms when the argument is not
\* a number, is NaN or is below 50, and with the argument otherwise; so no
\* timer is armed with less than 50 ms and timeout 0 acts as timeout 3000.
C10_TimeoutSanitised ==
  \A k \in 1..Len(run.log) :
    /\ run.log[k].timer = ExpectedTimeout(run.arg)
    /\ run.log[k].timer.t = "number"
    /\ run.log[k].timer.n >= 50

\* C10 witness: a call with timeout 0 whose first probe, armed with 3000 ms,
\* was answered ok.
C10_Witness ==
  /\ run.arg = Num(0)
  /\ run.pc = "done"
  /\ Len(run.log) = 1
  /\ run.log[1].timer = Num(3000)
  /\ run.log[1].outcome = "ok"

\* C11: within one findWorkingApiUrl call the probes are strictly
\* sequential: the probes issued so far are those of the first candidates in
\* list order, every one but the last has settled, and the last is pending
\* exactly while the call awaits it; so at most one probe of the call is in
\* flight at any time and candidate i+1 is probed only after candidate i
\* has settled.
C11_SequentialProbes ==
  /\ Len(run.log) = run.i
  /\ \A k \in 1..Len(run.log) :
       /\ run.log[k].url = run.testUrls[k]
       /\ run.log[k].outcome = "pending" <=> (run.pc = "fetch" /\ k = run.i)
  /\ Cardinality({k \in 1..Len(run.log) : run.log[k].outcome = "pending"}) <= 1

\* C11 witness: the third candidate is in flight, the two before it having
\* settled (one by its timer, one by a network error).
C11_Witness ==
  /\ run.pc = "fetch"
  /\ run.i = 3
  /\ run.log[1].outcome = "timeout"
  /\ run.log[2].outcome = "error"
  /\ run.log[3].outcome = "pending"

\* C12: a probe that timed out or failed at network level is swallowed: the
\* call never rejects, and after such a probe of the candidate at position k
\* the next candidate is probed when there is one, else the call has
\* returned resolveApiBaseUrl(); this for every position k.
C12_ProbeFailureSwallowed ==
  /\ run.pc \in {"idle", "fetch", "done"}
  /\ \A k \in 1..Len(run.log) :
       run.log[k].outcome \in {"error", "timeout"} =>
         IF k < Len(run.testUrls)
         THEN /\ Len(run.log) >= k + 1
              /\ run.log[k + 1].url = run.testUrls[k + 1]
         ELSE /\ run.pc = "done"
              /\ run.result = resolveApiBaseUrl

\* C12 witness: a list of four candidates, the first failed at network
\* level, the second and the last timed out, the call returned.
C12_Witness ==
  /\ run.pc = "done"
  /\ Len(run.testUrls) = 4
  /\ run.log[1].outcome = "error"
  /\ run.log[2].outcome = "timeout"
  /\ run.log[3].outcome = "status"
  /\ run.log[4].outcome = "timeout"
  /\ run.result = resolveApiBaseUrl

\* the probes of the call that ended by their timer
TimedOut == {k \in 1..Len(run.log) : run.log[k].outcome = "timeout"}

\* C13: every findWorkingApiUrl call returns even if the network never
\* answers: an awaited fetch is aborted when its timer fires, so a call that
\* awaits a fetch eventually returns; it issues at most one probe per
\* candidate and at most as many probes time out as there are candidates.
C13_Terminates ==
  /\ [](/\ Len(run.log) <= Len(run.testUrls)
        /\ \A k \in 1..Len(run.log) : run.log[k].url = run.testUrls[k]
        /\ Cardinality(TimedOut) <= Len(run.testUrls))
  /\ (run.pc = "fetch" ~> run.pc = "done")

\* C13 witness: a call on four candidates none of which answered returned
\* after four timeouts.
C13_Witness ==
  /\ run.pc = "done"
  /\ Len(run.testUrls) = 4
  /\ TimedOut = 1..4

\* C14: the timer armed for candidate k acts on the probe of candidate k
\* alone: a probe ends by timeout only when it is the awaited one and its
\* own timer fires, and the firing of the timer of a probe that is no more
\* awaited (it failed before, or the call has returned) changes neither the
\* outcome of any probe, nor the candidate probed, nor the call's position
\* or result.
C14_TimerPerCandidate ==
  [][/\ \A k \in 1..Len(run'.log) :
          (/\ run'.log[k].outcome = "timeout"
           /\ (k > Len(run.log) \/ run.log[k].outcome # "timeout"))
          => (run.pc = "fetch" /\ k = run.i /\ k \in run.timers
              /\ k \notin run'.timers)
     /\ \A j \in run.timers \ run'.timers :
          ~(run.pc = "fetch" /\ j = run.i) =>
            /\ run'.log = run.log
            /\ run'.pc = run.pc
            /\ run'.i = run.i
            /\ run'.result = run.result]_vars

\* C14 witness: the timer of the first candidate, which had failed at
\* network level, fired while the second candidate was awaited, and the
\* second candidate then answered ok.
C14_Witness ==
  /\ run.pc = "done"
  /\ Len(run.log) = 2
  /\ run.log[1].outcome = "error"
  /\ 1 \notin run.timers
  /\ run.log[2].outcome = "ok"
  /\ run.result = run.testUrls[2]

----------------------------------------------------------------------------
(* Claims about the screen's handlers *)

ScanIds == {id \in TaskIds : tasks[id].kind = "scan"}
MarkIds == {id \in TaskIds : tasks[id].kind = "mark"}

\* the POST an invocation has in flight
PostOf(t) == t.posts[Len(t.posts)]

\* C3 as stated: a scan whose health check failed makes exactly one rebind
\* in all before its verify POST, which goes through the client of that
\* rebind and not through the one that failed the check.  Violated by a
\* scan that found its client structurally invalid, rebound, failed the
\* health check of the new client and rebound again.
C3_ExactlyOneRebind ==
  \A id \in ScanIds :
    LET t == tasks[id]
    IN  (t.healthFailed /\ t.pc = "post") =>
          /\ t.nRebind = 1
          /\ PostOf(t).client = AxiosCreate(t.rebindUrl)
          /\ PostOf(t).gen # t.failedGen

\* C3: a failed health check of a scan is followed by exactly one rebind (one
\* run of the prober, one new client), no POST being issued until that
\* rebind is over; the verify POST then goes through the client that rebind
\* created for the URL it returned, never through the client that failed
\* the check.  The scan makes one rebind in all when the client it held was
\* usable and two when it first found that client structurally invalid.
C3_RebindAfterHealthFailure ==
  \A id \in ScanIds :
    LET t == tasks[id]
    IN  /\ (t.healthFailed /\ t.pc = "rebind1") =>
              /\ t.posts = <<>>
              /\ t.nRebind = t.failedGen
              /\ t.run.pc # "idle"
        /\ (t.healthFailed /\ t.pc = "post") =>
              /\ t.nRebind = t.failedGen + 1
              /\ t.nRebind = (IF NotReady(t.held) THEN 2 ELSE 1)
              /\ Len(t.posts) = 1
              /\ PostOf(t).endpoint = "verify"
              /\ PostOf(t).gen = t.nRebind
              /\ PostOf(t).gen # t.failedGen
              /\ PostOf(t).client = AxiosCreate(t.rebindUrl)
              /\ ~t.rebindAfterPost

\* C3 witness: a scan that held a structurally invalid client, rebound,
\* failed the health check, rebound again and has its verify POST in flight
\* through the second new client.
C3_Witness ==
  \E id \in ScanIds :
    LET t == tasks[id]
    IN  /\ t.pc = "post"
        /\ NotReady(t.held)
        /\ t.healthFailed
        /\ t.failedGen = 1
        /\ t.nRebind = 2
        /\ PostOf(t).gen = 2
        /\ PostOf(t).client = AxiosCreate(t.rebindUrl)

\* C4: no invocation of the scan handler issues more than one POST and that
\* one to the verify endpoint, no invocation of markAsUsed more than one and
\* that one to the mark-used endpoint, whether the POST succeeded or
\* failed; no rebind follows a POST, and an invocation whose POST has
\* settled has returned with no prober run of its own.
C4_NoAutomaticRetry ==
  \A id \in TaskIds :
    LET t == tasks[id]
    IN  /\ t.nPosts <= 1
        /\ Len(t.posts) <= 1
        /\ ~t.rebindAfterPost
        /\ t.kind = "init" => t.nPosts = 0
        /\ t.pc = "post" =>
              /\ t.nPosts = 1
              /\ t.run = IdleRun
              /\ PostOf(t).endpoint =
                   (IF t.kind = "scan" THEN "verify" ELSE "markUsed")
        /\ t.pc \in {"done", "ended"} => t.run = IdleRun /\ t.posts = <<>>
        /\ t.pc \in {"rebind0", "rebind1", "health", "pre"} => t.nPosts = 0

\* C4 witness: a markAsUsed whose POST failed has returned, its Error alert
\* up, with one POST issued, after a scan that issued one.
C4_Witness ==
  \E id \in MarkIds :
    /\ tasks[id].pc = "done"
    /\ tasks[id].nPosts = 1
    /\ AlertOf("Error", id, tasks[id].data, Undef) \in alerts
    /\ \E sid \in ScanIds : tasks[sid].nPosts = 1

\* C5 as stated: markAsUsed has the shape of the scan handler, its POST
\* following a health check of the current binding that passed or a rebind
\* after one that failed.  Violated by every mark-used POST: markAsUsed
\* makes no health check.
C5_MarkUsedHealthChecked ==
  \A id \in MarkIds :
    LET t == tasks[id]
    IN  t.pc = "post" =>
          \/ t.healthOk
          \/ t.healthFailed /\ PostOf(t).gen = t.failedGen + 1

TestIds == {id \in TaskIds : tasks[id].kind = "test"}

\* C15: after any interleaving of the mount-time initialisation, scans,
\* mark-used actions and connectivity tests, the workingApiUrl of the screen
\* is the resolver value of module load while no findWorkingBackend() call
\* of the screen has returned, and after that the value the call that
\* returned last returned; the client of the screen is then one for that
\* same URL.
C15_BoundUrl ==
  IF lastReturn = NotCalled
  THEN ui.workingApiUrl = API_BASE_URL
  ELSE /\ ui.workingApiUrl = lastReturn
       /\ ui.apiClient = AxiosCreate(lastReturn)

\* C15 witness: the resolver value is http://a, the initialisation and a
\* connectivity test have returned, a scan has rebound after a failed
\* health check and has its POST in flight, and the screen is bound to
\* http://b, which the last prober run returned.
C15_Witness ==
  /\ API_BASE_URL = Str(UrlA)
  /\ lastReturn = Str(UrlB)
  /\ ui.workingApiUrl = Str(UrlB)
  /\ \E id \in TaskIds : tasks[id].kind = "init" /\ tasks[id].pc = "done"
  /\ \E id \in TestIds : tasks[id].pc \in {"done", "ended"}
  /\ \E id \in ScanIds : tasks[id].pc = "post" /\ tasks[id].nRebind = 1

\* the workingApiUrl and the apiClient are those of one binding
Paired(url, client) == NotReady(client) \/ url = client.baseURL

\* C16 as stated: every render and every handler invocation is given a
\* workingApiUrl that is the base URL of the apiClient it is given with it.
\* Violated by the render made between setApiClient and setWorkingApiUrl
\* when the root renders each state update made after an await at once.
C16_NoHalfBinding ==
  /\ Paired(shown.workingApiUrl, shown.apiClient)
  /\ \A id \in TaskIds : Paired(tasks[id].heldUrl, tasks[id].held)

\* C16: every handler invocation that is given a usable apiClient is given
\* with it the workingApiUrl that is its base URL, and so is every render
\* but the one made between the two state updates of a rebind, during which
\* no handler is invoked.
C16_HandlersSeePairs ==
  /\ \A id \in TaskIds : Paired(tasks[id].heldUrl, tasks[id].held)
  /\ ~midBind => Paired(shown.workingApiUrl, shown.apiClient)
  /\ Paired(ui.workingApiUrl, ui.apiClient)

\* C16 witness: the resolver value is http://a, a render between the two
\* state updates of a rebind to http://b is shown, and a handler invoked
\* before holds the client and the URL of http://a.
C16_Witness ==
  /\ midBind
  /\ API_BASE_URL = Str(UrlA)
  /\ ui.workingApiUrl = Str(UrlB)
  /\ ~Paired(shown.workingApiUrl, shown.apiClient)
  /\ \E id \in TaskIds :
       /\ tasks[id].pc \notin {"done", "ended"}
       /\ tasks[id].held = AxiosCreate(Str(UrlA))
       /\ tasks[id].heldUrl = Str(UrlA)

C18_UnreachableSurfaced ==
  \A a \in alerts :
    (tasks[a.from].kind \in {"scan", "test"} /\ ~tasks[a.from].answered)
    => a.kind \in {"Error", "Network Error"}

\* the clients in use: the one of the screen, the one rendered, and those
\* the invocations hold or have created
ClientsInUse ==
  {c \in {ui.apiClient, shown.apiClient}
          \cup {tasks[id].cur : id \in TaskIds}
          \cup {tasks[id].held : id \in TaskIds} : ~NotReady(c)}

\* C19 as stated: every client used for the verify, mark-used and health
\* calls has the configured API_TIMEOUT as its timeout.  Violated whenever
\* API_TIMEOUT is configured to another value than 10000: the screen
\* creates its clients with the literal 10000.
C19_ClientTimeoutConfigured ==
  \A c \in ClientsInUse : Num(c.timeout) = API_TIMEOUT

----------------------------------------------------------------------------
(* Claims about the configuration lookup *)

\* the structured configuration: expoConfig.extra, else manifest.extra
StructuredSource ==
  Or(Or(Get(expoConfig, "extra"), Get(manifest, "extra")), Obj(<<>>))

\* the value the structured configuration defines for key (undefined: none)
StructuredValue(key) ==
  Get(StructuredSource,
      IF key \in DOMAIN keyMapping THEN keyMapping[key] ELSE key)

\* C20 as stated: getEnvVar(key, default) returns the value the structured
\* configuration defines under the translated key whenever it defines one,
\* be it '', 0 or false; else the process environment variable of that
\* name when defined; else the default; and never undefined.  Violated by a
\* structured value that is falsy: getEnvVar joins the sources with ||, so
\* '' , 0 and false give way to the environment variable or the default.
C20_StructuredWins ==
  looked # NotCalled =>
    /\ looked.value # Undef
    /\ looked.value =
         (IF StructuredValue(looked.key) # Undef
          THEN StructuredValue(looked.key)
          ELSE IF Get(processEnv, looked.key) # Undef
               THEN Get(processEnv, looked.key)
               ELSE looked.defaultValue)

----------------------------------------------------------------------------
(* Claims about the timers of the probes *)

\* C28 as stated: the timeout timer armed for a probe is cancelled when the
\* probe settles, with a response or with a failure, so that no timer of a
\* settled probe is pending and none is pending once findWorkingApiUrl has
\* returned.  Violated by a probe whose fetch rejects: the catch block is
\* entered before clearTimeout, and the timer stays armed.
C28_TimersCancelled ==
  /\ \A k \in 1..Len(run.log) :
       run.log[k].outcome # "pending" => k \notin run.timers
  /\ run.pc = "done" => run.timers = {}

----------------------------------------------------------------------------
(* Claims about the flags and the purity of the resolver *)

FlagKeys == {"DEBUG_MODE", "ENABLE_NETWORK_DEBUGGING", "ENABLE_API_LOGGING"}

\* the value configured for key: the structured one, else the environment
\* variable; undefined when no source has the key
ConfiguredValue(key) ==
  IF StructuredValue(key) # Undef THEN StructuredValue(key)
  ELSE Get(processEnv, key)

\* C21 as stated: each boolean flag of ENV_CONFIG is true exactly when the
\* value configured for it is the string "true"; every other configured
\* value, and a key that no source has, gives false.  Violated by a key that
\* no source has: the default of each flag is 'true', so the flag is true.
C21_FlagsTextual ==
  \A key \in FlagKeys :
    ENV_CONFIG[key] = (ConfiguredValue(key) = Str(TRUE_STR))

----------------------------------------------------------------------------
(* Claims about the start-up of the app *)

C29_OrderIndependent ==
  (app.check.pc = "done" /\ app.listener.pc = "done") =>
    IF app.listener.event = Null
    THEN ~app.isAuthenticated /\ app.user = Null
    ELSE /\ app.isAuthenticated
         /\ app.user = UserOf(app.listener.event.o.uid.s)

----------------------------------------------------------------------------
(* Claims about the scan cycle *)

\* a non-empty auth token is stored
TokenStored == authToken.t = "string" /\ authToken.s # <<>>

\* C24: every POST of a scan goes to the verify endpoint and every POST of
\* markAsUsed to the mark-used endpoint; its body is { qr_data } with the
\* payload the invocation was given, and it carries the header
\* Authorization: 'Bearer ' + token exactly when a non-empty token is
\* stored; else it carries no Authorization header.
C24_PostCarriesPayloadAndToken ==
  \A id \in TaskIds : \A k \in 1..Len(tasks[id].posts) :
    LET p == tasks[id].posts[k]
    IN  /\ tasks[id].kind \in {"scan", "mark"}
        /\ p.endpoint = IF tasks[id].kind = "scan" THEN "verify"
                        ELSE "markUsed"
        /\ p.body = [qr_data |-> tasks[id].data]
        /\ tasks[id].data \in ScanPayloads
        /\ p.auth = IF TokenStored THEN Str(BEARER \o authToken.s)
                    ELSE Undef

\* C24 witness: with the empty string stored as the token, a verify POST
\* for q1 and a mark-used POST for q2 are in flight, none with the header.
C24_Witness ==
  /\ authToken = Str(<<>>)
  /\ \E i \in ScanIds, j \in MarkIds :
       /\ tasks[i].pc = "post" /\ tasks[j].pc = "post"
       /\ PostOf(tasks[i]).body.qr_data = "q1"
       /\ PostOf(tasks[j]).body.qr_data = "q2"
       /\ PostOf(tasks[i]).auth = Undef
       /\ PostOf(tasks[j]).auth = Undef

\* C25 as stated: when the scan a markAsUsed invocation confirms has rebound
\* the client, the mark-used POST goes through the rebound client, to the
\* URL that rebind returned.  Violated after a failed health check: the
\* 'Mark as Used' button calls the markAsUsed of the render the scan handler
\* belongs to, whose apiClient is the client held before the rebind.
C25_MarkThroughReboundClient ==
  \A id \in MarkIds :
    tasks[id].scanUrl # Undef =>
      \A k \in 1..Len(tasks[id].posts) :
        tasks[id].posts[k].client.baseURL = tasks[id].scanUrl

\* the scans whose verify request is in flight
VerifyInFlight == {id \in ScanIds : tasks[id].pc = "post"}

\* the scans being handled: delivered and not yet returned
ScansHandled == {id \in ScanIds : tasks[id].pc \notin {"done", "ended"}}

\* C26 as stated: scans are handled one at a time, at most one is being
\* handled and at most one verify request is in flight, also when two scan
\* events are delivered before the render that follows the first.  Violated
\* by exactly that: the handler tests the scanned and loading of the render
\* it belongs to, which the first event has not changed yet.
C26_OneScanAtATime ==
  /\ Cardinality(ScansHandled) <= 1
  /\ Cardinality(VerifyInFlight) <= 1

\* C27: markAsUsed is started only by the alert of a scan whose verify POST
\* was answered success with already_used false, for the payload of that
\* scan, and once per such scan; a scan whose verify request failed or was
\* answered invalid or already used shows no alert that starts it; and a
\* mark-used POST is issued by markAsUsed alone, for its payload.
C27_MarkOnlyAfterValidVerify ==
  /\ [](/\ \A a \in alerts :
             a.kind = "Valid Ticket" =>
               /\ tasks[a.from].kind = "scan"
               /\ tasks[a.from].answer = "valid"
               /\ tasks[a.from].nPosts >= 1
               /\ tasks[a.from].data = a.data
        /\ \A id \in TaskIds : \A k \in 1..Len(tasks[id].posts) :
             tasks[id].posts[k].endpoint = "markUsed" =>
               /\ tasks[id].kind = "mark"
               /\ tasks[id].posts[k].body.qr_data = tasks[id].data)
  /\ [][(Len(tasks') > Len(tasks) /\ tasks'[Len(tasks')].kind = "mark") =>
          \E id \in ScanIds :
            /\ tasks[id].pc = "done"
            /\ tasks[id].answer = "valid"
            /\ tasks[id].nPosts >= 1
            /\ tasks[id].data = tasks'[Len(tasks')].data
            /\ tasks'[id].pc = "ended"
            /\ AlertOf("Valid Ticket", id, tasks[id].data, Undef)
                 \in alerts \ alerts']_vars

\* C27 witness: two scans have returned and their alerts were answered; the
\* markAsUsed that the Valid Ticket alert of the scan of q2 started has its
\* POST in flight.
C27_Witness ==
  /\ Len(tasks) = 3
  /\ tasks[1].kind = "scan" /\ tasks[1].pc = "ended"
  /\ tasks[2].kind = "scan" /\ tasks[2].pc = "ended"
  /\ tasks[3].kind = "mark" /\ tasks[3].pc = "post"
  /\ PostOf(tasks[3]).endpoint = "markUsed"
  /\ PostOf(tasks[3]).body.qr_data = "q2"

====
